---- MODULE Spec2Model ----
(***************************************************************************)
(* Model of the Monkey TLS plugin, lib/monkey/plugins/tls/tls.c: the       *)
(* per-thread pool of ssl contexts, the translation of engine results,     *)
(* the network callbacks read / write / writev / send_file / close and the *)
(* plugin and worker initialisation hooks.                                 *)
(*                                                                         *)
(* The PolarSSL engine, pread and the allocator are the environment: each  *)
(* call to them yields one of the results their contracts allow.           *)
(***************************************************************************)
EXTENDS Integers, Sequences, FiniteSets

(* ------------------------------ bounds --------------------------------- *)
\* socket descriptors the host hands to the callbacks: 1..NFds
NFds == 2
\* contexts the allocator can hand out before mem_alloc starts to fail
MaxCtx == 2
\* largest count / length given to read and write
MaxLen == 2
\* largest record the engine decrypts, or accepts, in one call
MaxRec == 2
\* largest file length, offset and count given to send_file
MaxFile == 2
\* stand-in for SENDFILE_BUF_SIZE (SSL_MAX_CONTENT_LEN, 16384 bytes), scaled
SENDFILE_BUF_SIZE == 2

(* ------------------------- program constants --------------------------- *)
POLARSSL_ERR_NET_WANT_READ == -82
POLARSSL_ERR_NET_WANT_WRITE == -84
POLARSSL_ERR_SSL_CONN_EOF == -29312
\* two engine results of the default branch of handle_return
POLARSSL_ERR_NET_CONN_RESET == -80
POLARSSL_ERR_SSL_INVALID_MAC == -29056
EAGAIN == 11
\* an errno value other than 0 and EAGAIN
ECONNRESET == 104
\* the "free" marker of polar_context_head.fd
FREE_FD == -1

\* worker threads contending for the entropy generator and the session cache
NLockWorkers == 3

\* two worker threads; thread 0 is the master thread, which never runs worker_init
Workers == {1, 2}
Threads == {0} \cup Workers
Fds == 1..NFds
ErrnoVals == {0, EAGAIN, ECONNRESET}
WantResults == {POLARSSL_ERR_NET_WANT_READ, POLARSSL_ERR_NET_WANT_WRITE}
HardErrors == {POLARSSL_ERR_NET_CONN_RESET, POLARSSL_ERR_SSL_INVALID_MAC}
\* every non-positive result an engine data call can report
NonPositive == WantResults \cup HardErrors \cup {POLARSSL_ERR_SSL_CONN_EOF, 0}

\* what the environment may answer during a callback: eng, the engine's answers
\* (a non-positive result, or r > 0: a record of r bytes arrives / up to r
\* bytes are accepted), and errno, the values errno may hold when it returns
FullEnv == [eng |-> NonPositive \cup (1..MaxRec), errno |-> ErrnoVals]

Min(a, b) == IF a < b THEN a ELSE b

VARIABLES
    build,    \* compile-time options of the build: [certs_c]
    conf,     \* server_context->config after config_parse
    server,   \* server_context: credentials and the result of the init hook
    thctx,    \* per thread: its polar_thread_context; set when local_context holds it
    pool,     \* per thread: thctx->contexts, the list of polar_context_head
    nalloc,   \* contexts handed out by mem_alloc so far
    crashed,  \* the process was aborted (abort(), failed assert, SIGSEGV)
    last,     \* the callback in progress or the one that returned last
    parked,   \* per thread: its send_file call in progress while another thread runs
    sync      \* the two mutexes (their holders) and where each thread is with
              \* respect to the entropy generator and the session cache

vars == <<build, conf, server, thctx, pool, nalloc, crashed, last, parked, sync>>

(* --------------------------- engine (PolarSSL) ------------------------- *)
\* ssl_init / memset: a fresh ssl_context
NewSsl == [in_offt |-> FALSE, in_msglen |-> 0, clean |-> TRUE]

\* ssl_session_reset: drops handshake, session and buffered record state
ssl_session_reset(c) == [c EXCEPT !.in_offt = FALSE, !.in_msglen = 0, !.clean = TRUE]

\* ssl_read(ssl, buf, count), the environment answering r: a non-positive r is
\* reported as it is; else count bytes at most are copied from the record in
\* progress (of r bytes when none was buffered) and the rest stays buffered
ssl_read(c, count, r) ==
    IF r <= 0 THEN [ret |-> r, ctx |-> [c EXCEPT !.clean = FALSE]]
    ELSE LET m == IF c.in_offt THEN c.in_msglen ELSE r
             n == Min(count, m)
         IN  [ret |-> n,
              ctx |-> [c EXCEPT !.in_msglen = m - n, !.in_offt = (m - n > 0),
                                !.clean = FALSE]]

\* ssl_write(ssl, buf, len), the environment answering r: a non-positive r is
\* reported as it is; else the engine accepts r bytes, len at most
ssl_write(c, len, r) ==
    [ret |-> IF r <= 0 THEN r ELSE Min(r, len), ctx |-> [c EXCEPT !.clean = FALSE]]

\* ssl_close_notify(ssl)
ssl_close_notify(c) == [c EXCEPT !.clean = FALSE]

(* ------------------------------ helpers -------------------------------- *)
polar_get_bytes_avail(c) == IF c.in_offt = FALSE THEN 0 ELSE c.in_msglen

\* handle_return leaving errno as it finds it
handle_return_KeepErrno(ret, errno) ==
    IF ret < 0
    THEN IF ret = POLARSSL_ERR_SSL_CONN_EOF
         THEN [ret |-> 0, errno |-> errno]
         ELSE [ret |-> -1, errno |-> errno]
    ELSE [ret |-> ret, errno |-> errno]

\* handle_return without the POLARSSL_ERR_SSL_CONN_EOF case
handle_return_EofAsError(ret, errno) ==
    IF ret < 0
    THEN IF ret = POLARSSL_ERR_NET_WANT_READ \/ ret = POLARSSL_ERR_NET_WANT_WRITE
         THEN [ret |-> -1, errno |-> IF errno # EAGAIN THEN EAGAIN ELSE errno]
         ELSE [ret |-> -1, errno |-> IF errno = EAGAIN THEN 0 ELSE errno]
    ELSE [ret |-> ret, errno |-> errno]

handle_return(ret, errno) ==
    IF ret < 0
    THEN IF ret = POLARSSL_ERR_NET_WANT_READ \/ ret = POLARSSL_ERR_NET_WANT_WRITE
         THEN [ret |-> -1, errno |-> IF errno # EAGAIN THEN EAGAIN ELSE errno]
         ELSE IF ret = POLARSSL_ERR_SSL_CONN_EOF
         THEN [ret |-> 0, errno |-> errno]
         ELSE [ret |-> -1, errno |-> IF errno = EAGAIN THEN 0 ELSE errno]
    ELSE [ret |-> ret, errno |-> errno]

(* --------------------------- context pool ------------------------------ *)
\* every thread being handed the thread context of worker 1
local_thread_context_Shared(t) == 1

\* local_thread_context() called on thread t: pthread_getspecific yields the
\* value thread t stored under local_context, its own polar_thread_context
local_thread_context(t) == t

\* a polar_context_head: the bound descriptor and the engine's context
NewHead(fd) == [fd |-> fd, context |-> NewSsl]

RECURSIVE ScanFd(_, _, _)
\* the loop of context_get / context_new: first index from i whose fd is fd,
\* Len(p) + 1 when the list ends first
ScanFd(p, i, fd) ==
    IF i > Len(p) THEN i
    ELSE IF p[i].fd = fd THEN i
    ELSE ScanFd(p, i + 1, fd)

\* context_get(fd) of a thread with context th (FALSE: no thread context) and
\* list p; 0 stands for NULL, i > 0 for &p[i].context
context_get(th, p, fd) ==
    IF ~th THEN 0
    ELSE LET i == ScanFd(p, 1, fd) IN IF i > Len(p) THEN 0 ELSE i

\* context_new leaving a reused head unbound: (*cur)->fd = fd only when allocating
context_new_NoBind(p, fd, alloc) ==
    LET i == ScanFd(p, 1, FREE_FD)
    IN  IF i > Len(p)
        THEN IF alloc
             THEN [pool |-> Append(p, NewHead(fd)), ssl |-> i, allocated |-> 1]
             ELSE [pool |-> p, ssl |-> 0, allocated |-> 0]
        ELSE [pool |-> p, ssl |-> i, allocated |-> 0]

\* context_new taking the first head of the list, free or not
context_new_Steal(p, fd, alloc) ==
    IF p = <<>>
    THEN IF alloc
         THEN [pool |-> Append(p, NewHead(fd)), ssl |-> 1, allocated |-> 1]
         ELSE [pool |-> p, ssl |-> 0, allocated |-> 0]
    ELSE [pool |-> [p EXCEPT ![1].fd = fd], ssl |-> 1, allocated |-> 0]

\* context_new that never looks for a free head and always allocates
context_new_NoReuse(p, fd, alloc) ==
    IF alloc
    THEN [pool |-> Append(p, NewHead(fd)), ssl |-> Len(p) + 1, allocated |-> 1]
    ELSE [pool |-> p, ssl |-> 0, allocated |-> 0]

\* context_new(fd); alloc says whether mem_alloc succeeds if it is called
context_new(p, fd, alloc) ==
    LET i == ScanFd(p, 1, FREE_FD)
    IN  IF i > Len(p)
        THEN IF alloc
             THEN [pool |-> Append(p, NewHead(fd)), ssl |-> i, allocated |-> 1]
             ELSE [pool |-> p, ssl |-> 0, allocated |-> 0]
        ELSE [pool |-> [p EXCEPT ![i].fd = fd], ssl |-> i, allocated |-> 0]

\* context_unset releasing the head whatever descriptor it is bound to
context_unset_Unchecked(p, fd, ssl) ==
    [pool |-> [p EXCEPT ![ssl].fd = FREE_FD,
                        ![ssl].context = ssl_session_reset(p[ssl].context)],
     logged |-> 0]

\* context_unset marking the head free with its session as it is
context_unset_NoReset(p, fd, ssl) ==
    IF p[ssl].fd = fd
    THEN [pool |-> [p EXCEPT ![ssl].fd = FREE_FD], logged |-> 0]
    ELSE [pool |-> p, logged |-> 1]

\* context_unset resetting the session but leaving the head bound
context_unset_KeepBound(p, fd, ssl) ==
    IF p[ssl].fd = fd
    THEN [pool |-> [p EXCEPT ![ssl].context = ssl_session_reset(p[ssl].context)],
          logged |-> 0]
    ELSE [pool |-> p, logged |-> 1]

\* context_unset(fd, ssl): ssl is the index of the head holding the context
context_unset(p, fd, ssl) ==
    IF p[ssl].fd = fd
    THEN [pool |-> [p EXCEPT ![ssl].fd = FREE_FD,
                             ![ssl].context = ssl_session_reset(p[ssl].context)],
          logged |-> 0]
    ELSE [pool |-> p, logged |-> 1]

\* a callback that calls context_new without asking context_get first
Resolve_AlwaysNew(p, fd, alloc) ==
    LET n == context_new(p, fd, alloc)
    IN  [pool |-> n.pool, ssl |-> n.ssl, isnew |-> TRUE, allocated |-> n.allocated]

\* the opening of every callback: ssl = context_get(fd); if (!ssl) ssl = context_new(fd)
Resolve(p, fd, alloc) ==
    LET s == context_get(TRUE, p, fd)
    IN  IF s # 0
        THEN [pool |-> p, ssl |-> s, isnew |-> FALSE, allocated |-> 0]
        ELSE LET n == context_new(p, fd, alloc)
             IN  [pool |-> n.pool, ssl |-> n.ssl, isnew |-> TRUE, allocated |-> n.allocated]

\* the outcomes of the mem_alloc of context_new when a callback on fd reaches
\* it: it may fail at any time, and fails once MaxCtx contexts are handed out
AllocOutcomes(p, fd) ==
    IF context_get(TRUE, p, fd) = 0 /\ ScanFd(p, 1, FREE_FD) > Len(p)
    THEN (IF nalloc < MaxCtx THEN {TRUE, FALSE} ELSE {FALSE})
    ELSE {TRUE}

(* ------------------------ the callback record -------------------------- *)
\* what the host can observe of a callback: its arguments, the calls it made
\* to the engine, the file and the transport, and what it returned
NoFrame ==
    [op |-> "none", pc |-> "done", t |-> 0, fd |-> 0, count |-> 0,
     ssl |-> 0, isnew |-> FALSE, alloc |-> 0,
     ncalls |-> 0, len |-> 0, eng |-> 0,
     errno_in |-> 0, errno |-> 0, ret |-> 0,
     notified |-> 0, logged |-> 0, closed |-> 0, calls |-> <<>>,
     io |-> <<>>, buf |-> <<>>, held |-> 0, nomem |-> FALSE, ioerr |-> FALSE,
     flen |-> 0, off0 |-> 0, off |-> 0, remain |-> 0, sent |-> 0, preads |-> 0]

\* thread t may start a callback: the process runs, the thread that ran last
\* is not inside a send_file loop and t has no send_file call of its own open
Idle(t) == ~crashed /\ last.pc # "loop" /\ parked[t].pc # "loop"

\* the process dies inside callback op (SIGSEGV, abort): nothing is returned
Crash(op, t, fd, count, r) ==
    /\ crashed' = TRUE
    /\ pool' = [pool EXCEPT ![local_thread_context(t)] = r.pool]
    /\ nalloc' = nalloc + r.allocated
    /\ last' = [NoFrame EXCEPT !.op = op, !.pc = "crash", !.t = t, !.fd = fd,
                               !.count = count, !.ssl = r.ssl, !.isnew = r.isnew,
                               !.alloc = r.allocated]

\* the callback returns frame f, its context left as c by the engine
Return(t, r, c, f) ==
    /\ pool' = [pool EXCEPT ![local_thread_context(t)] = IF r.ssl = 0 THEN r.pool
                                   ELSE [r.pool EXCEPT ![r.ssl].context = c]]
    /\ nalloc' = nalloc + r.allocated
    /\ last' = f
    /\ UNCHANGED crashed

(* ------------------------------- read ---------------------------------- *)
\* mk_tls_read returning what ssl_read copied, without the buffered bytes
ReadReturn_NoAvail(eng, e, avail) == handle_return(eng, e)

\* lines 595-612: the value mk_tls_read returns for engine result eng, with
\* errno e when ssl_read returns and avail bytes reported by polar_get_bytes_avail
ReadReturn(eng, e, avail) ==
    LET h == handle_return(eng, e)
    IN  [ret |-> IF h.ret > 0 /\ avail > 0 THEN h.ret + avail ELSE h.ret,
         errno |-> h.errno]

ReadFrame(t, fd, count, r, eng, e, avail) ==
    LET rr == ReadReturn(eng, e, avail)
    IN  [NoFrame EXCEPT !.op = "read", !.t = t, !.fd = fd, !.count = count,
                        !.ssl = r.ssl, !.isnew = r.isnew, !.alloc = r.allocated,
                        !.ncalls = 1, !.len = count, !.eng = eng,
                        !.errno_in = e, !.errno = rr.errno, !.ret = rr.ret]

mk_tls_read(t, fd, count, env) ==
    /\ Idle(t) /\ thctx[t].set
    /\ \E alloc \in AllocOutcomes(pool[local_thread_context(t)], fd), x \in env.eng, e \in env.errno :
         LET r == Resolve(pool[local_thread_context(t)], fd, alloc)
         IN  IF r.ssl = 0
             THEN \* ssl_read(NULL, ...) is undefined: the process dies, or the
                  \* call and the read of in_offt yield whatever the build makes
                  \/ Crash("read", t, fd, count, r)
                  \/ \E a \in 0..MaxRec :
                       Return(t, r, NewSsl,
                              ReadFrame(t, fd, count, r, ssl_read(NewSsl, count, x).ret, e, a))
             ELSE LET out == ssl_read(r.pool[r.ssl].context, count, x)
                  IN  Return(t, r, out.ctx,
                             ReadFrame(t, fd, count, r, out.ret, e,
                                       polar_get_bytes_avail(out.ctx)))
    /\ UNCHANGED <<build, conf, server, thctx, parked, sync>>

(* ------------------------------- write --------------------------------- *)
\* mk_api->mem_free(buf): the scratch buffers a callback still holds, out of
\* held, once it has released one
mem_free(held) == held - 1

\* the frame of a write or writev: io the vector given (writev), buf the bytes
\* handed to ssl_write, held the scratch buffers allocated for the call
WriteFrame(op, t, fd, count, r, eng, e, io, buf, held) ==
    LET h == handle_return(eng, e)
    IN  [NoFrame EXCEPT !.op = op, !.t = t, !.fd = fd, !.count = count,
                        !.ssl = r.ssl, !.isnew = r.isnew, !.alloc = r.allocated,
                        !.ncalls = 1, !.len = count, !.eng = eng,
                        !.io = io, !.buf = buf,
                        !.held = IF held > 0 THEN mem_free(held) ELSE 0,
                        !.errno_in = e, !.errno = h.errno, !.ret = h.ret]

\* the shared tail of write and writev: one ssl_write of len bytes, translated
WriteCall(op, t, fd, len, r, io, buf, held, x, e) ==
    IF r.ssl = 0
    THEN \/ Crash(op, t, fd, len, r)
         \/ Return(t, r, NewSsl,
                   WriteFrame(op, t, fd, len, r, ssl_write(NewSsl, len, x).ret, e,
                              io, buf, held))
    ELSE LET out == ssl_write(r.pool[r.ssl].context, len, x)
         IN  Return(t, r, out.ctx,
                    WriteFrame(op, t, fd, len, r, out.ret, e, io, buf, held))

mk_tls_write(t, fd, count, env) ==
    /\ Idle(t) /\ thctx[t].set
    /\ \E alloc \in AllocOutcomes(pool[local_thread_context(t)], fd), x \in env.eng, e \in env.errno :
         WriteCall("write", t, fd, count, Resolve(pool[local_thread_context(t)], fd, alloc), <<>>, <<>>, 0, x, e)
    /\ UNCHANGED <<build, conf, server, thctx, parked, sync>>

(* ------------------------------- close --------------------------------- *)
\* what ssl_close_notify may report; mk_tls_close does not look at it
CloseNotifyResults == {0, POLARSSL_ERR_NET_WANT_WRITE, POLARSSL_ERR_NET_CONN_RESET}

\* the frame records: notified, the descriptor the context was bound to when
\* ssl_close_notify ran (0: not called), eng, what it reported, closed, the
\* calls of net_close(fd), and calls, what was called outside the pool, in order
mk_tls_close(t, fd) ==
    /\ Idle(t)
    /\ LET ssl == context_get(thctx[t].set, pool[local_thread_context(t)], fd)
       IN  IF ssl # 0
           THEN \E x \in CloseNotifyResults :
                  LET p1 == [pool[local_thread_context(t)] EXCEPT
                               ![ssl].context = ssl_close_notify(pool[local_thread_context(t)][ssl].context)]
                      u == context_unset(p1, fd, ssl)
                  IN  /\ pool' = [pool EXCEPT ![local_thread_context(t)] = u.pool]
                      /\ last' = [NoFrame EXCEPT
                                    !.op = "close", !.t = t, !.fd = fd, !.ssl = ssl,
                                    !.notified = p1[ssl].fd, !.eng = x,
                                    !.logged = u.logged,
                                    !.calls = IF u.logged = 0
                                              THEN <<"ssl_close_notify", "ssl_session_reset",
                                                     "net_close">>
                                              ELSE <<"ssl_close_notify", "net_close">>,
                                    !.closed = 1, !.ret = 0]
           ELSE /\ pool' = pool
                /\ last' = [NoFrame EXCEPT !.op = "close", !.t = t, !.fd = fd,
                                           !.calls = <<"net_close">>,
                                           !.closed = 1, !.ret = 0]
    /\ UNCHANGED <<build, conf, server, thctx, nalloc, crashed, parked, sync>>

\* context_unset(fd, ssl) called by thread t with any context of its pool
ContextUnsetCall(t, fd, ssl) ==
    /\ Idle(t) /\ thctx[t].set
    /\ ssl \in 1..Len(pool[local_thread_context(t)])
    /\ LET u == context_unset(pool[local_thread_context(t)], fd, ssl)
       IN  /\ pool' = [pool EXCEPT ![local_thread_context(t)] = u.pool]
           /\ last' = [NoFrame EXCEPT !.op = "context_unset", !.t = t, !.fd = fd,
                                      !.ssl = ssl, !.logged = u.logged, !.ret = 0]
    /\ UNCHANGED <<build, conf, server, thctx, nalloc, crashed, parked, sync>>

(* ------------------------------- writev -------------------------------- *)
RECURSIVE SumLen(_)
SumLen(bufs) == IF bufs = <<>> THEN 0 ELSE Len(bufs[1]) + SumLen(Tail(bufs))

\* a struct mk_iov holding the buffers bufs: io, iov_idx and total_len as
\* mk_tls_writev reads them
MkIov(bufs) == [io |-> bufs, iov_idx |-> Len(bufs), total_len |-> SumLen(bufs)]

\* the vectors the host passes to writev
IovInputs ==
    { MkIov(b) : b \in { << <<1>> >>, << <<1>>, <<2>> >>, << <<2>>, <<1>> >>,
                         << <<1, 2>>, <<>>, <<1>> >> } }

RECURSIVE Gather_Backwards(_, _, _)
\* the copy loop putting each entry in front of the bytes copied before
Gather_Backwards(mk_io, i, buf) ==
    IF i > mk_io.iov_idx THEN buf
    ELSE Gather_Backwards(mk_io, i + 1, mk_io.io[i] \o buf)

RECURSIVE Gather(_, _, _)
\* lines 645-648: the copy loop from entry i on, buf being the bytes copied so far
Gather(mk_io, i, buf) ==
    IF i > mk_io.iov_idx THEN buf
    ELSE Gather(mk_io, i + 1, buf \o mk_io.io[i])

mk_tls_writev(t, fd, mk_io, env) ==
    /\ Idle(t) /\ thctx[t].set
    /\ \E alloc \in AllocOutcomes(pool[local_thread_context(t)], fd), bufok \in BOOLEAN, x \in env.eng, e \in env.errno :
         LET r == Resolve(pool[local_thread_context(t)], fd, alloc)
             len == mk_io.total_len
             buf == Gather(mk_io, 1, <<>>)
         IN  IF ~bufok
             THEN Return(t, r, IF r.ssl = 0 THEN NewSsl ELSE r.pool[r.ssl].context,
                         [NoFrame EXCEPT !.op = "writev", !.t = t, !.fd = fd,
                                         !.count = len, !.ssl = r.ssl,
                                         !.isnew = r.isnew, !.alloc = r.allocated,
                                         !.io = mk_io.io, !.errno_in = e,
                                         !.errno = e, !.ret = -1, !.nomem = TRUE])
             ELSE IF Len(buf) # len
             THEN Crash("writev", t, fd, len, r)
             ELSE WriteCall("writev", t, fd, len, r, mk_io.io, buf, 1, x, e)
    /\ UNCHANGED <<build, conf, server, thctx, parked, sync>>

(* ------------------------------ send_file ------------------------------ *)
\* pread(file_fd, buf, SENDFILE_BUF_SIZE, off) on a file of flen bytes: an
\* error, 0 at or past the end, else 1 up to the bytes that fit the buffer
pread(flen, off) ==
    {-1} \cup (IF off >= flen THEN {0} ELSE 1..Min(SENDFILE_BUF_SIZE, flen - off))

\* lines 660-672: resolve the context and allocate the chunk buffer
SendFileCall(t, fd, flen, off, count) ==
    /\ Idle(t) /\ thctx[t].set
    /\ \E alloc \in AllocOutcomes(pool[local_thread_context(t)], fd), bufok \in BOOLEAN :
         LET r == Resolve(pool[local_thread_context(t)], fd, alloc)
             f == [NoFrame EXCEPT !.op = "send_file", !.t = t, !.fd = fd,
                                  !.count = count, !.ssl = r.ssl, !.isnew = r.isnew,
                                  !.alloc = r.allocated,
                                  !.flen = flen, !.off0 = off, !.off = off,
                                  !.remain = count]
         IN  /\ pool' = [pool EXCEPT ![local_thread_context(t)] = r.pool]
             /\ nalloc' = nalloc + r.allocated
             /\ last' = IF bufok THEN [f EXCEPT !.pc = "loop", !.held = 1]
                        ELSE [f EXCEPT !.ret = -1, !.nomem = TRUE]
    /\ UNCHANGED <<build, conf, server, thctx, crashed, parked, sync>>

\* SendFileReturn forgetting the bytes already sent
SendFileReturn_NoSent(f, ret, e) ==
    LET h == handle_return(ret, e)
    IN  [f EXCEPT !.pc = "done", !.eng = ret, !.errno_in = e,
                  !.held = mem_free(f.held),
                  !.errno = h.errno, !.ret = h.ret]

\* a loop that goes round again when the engine would block
SendFileReturn_Retry(f, ret, e) ==
    LET h == handle_return(ret, e)
    IN  IF ret \in WantResults
        THEN [f EXCEPT !.eng = ret, !.errno_in = e]
        ELSE [f EXCEPT !.pc = "done", !.eng = ret, !.errno_in = e,
                       !.held = mem_free(f.held),
                       !.errno = IF f.sent > 0 THEN e ELSE h.errno,
                       !.ret = IF f.sent > 0 THEN f.sent ELSE h.ret]

\* lines 699-706: the loop ended with result ret and errno e
SendFileReturn(f, ret, e) ==
    LET h == handle_return(ret, e)
    IN  [f EXCEPT !.pc = "done", !.eng = ret, !.errno_in = e,
                  !.held = mem_free(f.held),
                  !.errno = IF f.sent > 0 THEN e ELSE h.errno,
                  !.ret = IF f.sent > 0 THEN f.sent ELSE h.ret]

\* the loop counting the bytes sent but leaving *file_offset alone
SendFileAdvance_NoOffset(f, ret) ==
    [f EXCEPT !.eng = ret,
              !.remain = IF f.remain > 0 THEN f.remain - ret ELSE f.remain,
              !.sent = f.sent + ret]

\* lines 690-697: the engine accepted ret > 0 bytes
SendFileAdvance(f, ret) ==
    [f EXCEPT !.eng = ret,
              !.remain = IF f.remain > 0 THEN f.remain - ret ELSE f.remain,
              !.sent = f.sent + ret,
              !.off = f.off + ret]

\* lines 683-688: the length handed to ssl_write for a chunk of used bytes
SendFileLen(used, remain) ==
    IF remain > 0 THEN (IF used < remain THEN used ELSE remain) ELSE used

\* lines 674-706: one pass of the do-while loop, and the return when it ends
SendFileIter(env) ==
    /\ ~crashed /\ last.pc = "loop"
    /\ LET t == last.t
           f0 == [last EXCEPT !.preads = last.preads + 1, !.len = 0]
       IN  \E used \in pread(last.flen, last.off) :
             IF used <= 0
             THEN /\ \E e \in env.errno :
                       last' = SendFileReturn([f0 EXCEPT !.ioerr = (used < 0)],
                                              IF used = 0 THEN 0 ELSE -1, e)
                  /\ UNCHANGED <<pool, crashed>>
             ELSE LET len == SendFileLen(used, last.remain)
                      f1 == [f0 EXCEPT !.len = len, !.ncalls = last.ncalls + 1]
                      c == IF last.ssl = 0 THEN NewSsl ELSE pool[local_thread_context(t)][last.ssl].context
                  IN  \/ \* ssl_write(NULL, ...): undefined, as in read
                         /\ last.ssl = 0
                         /\ crashed' = TRUE
                         /\ last' = [f1 EXCEPT !.pc = "crash"]
                         /\ UNCHANGED pool
                      \/ \E x \in env.eng :
                           LET out == ssl_write(c, len, x)
                           IN  /\ IF out.ret > 0
                                  THEN last' = SendFileAdvance(f1, out.ret)
                                  ELSE \E e \in env.errno :
                                         last' = SendFileReturn(f1, out.ret, e)
                               /\ pool' = IF last.ssl = 0 THEN pool
                                          ELSE [pool EXCEPT ![local_thread_context(t)][last.ssl].context = out.ctx]
                               /\ UNCHANGED crashed
    /\ UNCHANGED <<build, conf, server, thctx, nalloc, parked, sync>>

(* ----------------------------- scheduling ------------------------------ *)
\* worker t gets the processor while another thread is inside a send_file
\* loop, or takes up its own loop again: the loop left is parked, the one
\* taken up becomes the callback in progress
Switch(t) ==
    /\ ~crashed /\ thctx[t].set /\ last.t # t
    /\ last.pc = "loop" \/ parked[t].pc = "loop"
    /\ parked' = [parked EXCEPT ![last.t] = IF last.pc = "loop" THEN last ELSE @,
                                ![t] = NoFrame]
    /\ last' = IF parked[t].pc = "loop" THEN parked[t]
               ELSE [NoFrame EXCEPT !.op = "switch", !.t = t]
    /\ UNCHANGED <<build, conf, server, thctx, pool, nalloc, crashed, sync>>

(* --------------------------- initialisation ---------------------------- *)
\* the keys a tls.conf can give: "" when the key (or the file) is absent
RawConfs ==
    [cert_file : {"", "conf"}, cert_chain_file : {"", "conf"},
     key_file : {"", "conf"}, dh_param_file : {"", "conf"}]

\* lines 225-239: absent paths fall back to files under confdir; always returns 0
config_parse(raw) ==
    [ret |-> 0,
     conf |-> [cert_file |-> IF raw.cert_file = "" THEN "srv_cert.pem" ELSE raw.cert_file,
               cert_chain_file |-> raw.cert_chain_file,
               key_file |-> IF raw.key_file = "" THEN "rsa.pem" ELSE raw.key_file,
               dh_param_file |-> IF raw.dh_param_file = "" THEN "dhparam.pem"
                                 ELSE raw.dh_param_file]]

\* polar_load_certs: fileok, testok, chainok are the results of the three parses
polar_load_certs(c, certs_c, fileok, testok, chainok) ==
    IF ~fileok
    THEN IF certs_c
         THEN IF ~testok THEN [ret |-> -1, cert |-> "none", chain |-> FALSE]
              ELSE [ret |-> 0, cert |-> "test", chain |-> FALSE]
         ELSE [ret |-> -1, cert |-> "none", chain |-> FALSE]
    ELSE IF c.cert_chain_file # ""
    THEN [ret |-> 0, cert |-> "file", chain |-> chainok]
    ELSE [ret |-> 0, cert |-> "file", chain |-> FALSE]

\* polar_load_dh_param: the file, else the RFC 5114 group read by mpi_read_string
polar_load_dh_param(dhok, mpiok) ==
    IF ~dhok
    THEN IF ~mpiok THEN [ret |-> -1, dhm |-> "none"]
         ELSE [ret |-> 0, dhm |-> "rfc5114"]
    ELSE [ret |-> 0, dhm |-> "file"]

\* polar_init: the server context it leaves and the value it returns
polar_init(c, certs_c, fileok, testok, chainok, dhok, mpiok) ==
    LET lc == polar_load_certs(c, certs_c, fileok, testok, chainok)
        ld == polar_load_dh_param(dhok, mpiok)
    IN  IF lc.ret # 0
        THEN [ret |-> -1, cert |-> lc.cert, chain |-> lc.chain, dhm |-> "none"]
        ELSE IF ld.ret # 0
        THEN [ret |-> -1, cert |-> lc.cert, chain |-> lc.chain, dhm |-> ld.dhm]
        ELSE [ret |-> 0, cert |-> lc.cert, chain |-> lc.chain, dhm |-> ld.dhm]

NoServer == [up |-> FALSE, ret |-> 0, polar |-> 0, cert |-> "none", chain |-> FALSE,
             dhm |-> "none"]

\* mk_tls_plugin_init: ret is set by config_parse alone; polar_init's result is dropped
PluginInitRet(cp, pi) == IF cp.ret # 0 THEN -1 ELSE 0

mk_tls_plugin_init ==
    /\ ~crashed /\ ~server.up
    /\ \E fileok, testok, chainok, dhok, mpiok \in BOOLEAN :
         LET cp == config_parse(conf)
             pi == polar_init(cp.conf, build.certs_c, fileok, testok, chainok, dhok, mpiok)
         IN  /\ conf' = cp.conf
             /\ server' = [up |-> TRUE, ret |-> PluginInitRet(cp, pi), polar |-> pi.ret,
                           cert |-> pi.cert, chain |-> pi.chain, dhm |-> pi.dhm]
    /\ last' = [NoFrame EXCEPT !.op = "plugin_init"]
    /\ UNCHANGED <<build, thctx, pool, nalloc, crashed, parked, sync>>

NoThread == [set |-> FALSE, seeded |-> FALSE, pkey |-> "none"]

\* polar_load_key: the key file, else the built-in test key when compiled in
polar_load_key(certs_c, fileok, testok) ==
    IF ~fileok
    THEN IF certs_c
         THEN IF ~testok THEN [ret |-> -1, pkey |-> "none"] ELSE [ret |-> 0, pkey |-> "test"]
         ELSE [ret |-> -1, pkey |-> "none"]
    ELSE [ret |-> 0, pkey |-> "file"]

\* polar_thread_init going on after a failed ctr_drbg_init
polar_thread_init_NoSeedCheck(certs_c, allocok, seedok, fileok, testok) ==
    IF ~allocok THEN [ret |-> -1, th |-> NoThread]
    ELSE LET k == polar_load_key(certs_c, fileok, testok)
         IN  IF k.ret # 0
             THEN [ret |-> -1, th |-> [set |-> FALSE, seeded |-> seedok, pkey |-> k.pkey]]
             ELSE [ret |-> 0, th |-> [set |-> TRUE, seeded |-> seedok, pkey |-> k.pkey]]

\* polar_thread_init: the thread context it leaves and the value it returns
polar_thread_init(certs_c, allocok, seedok, fileok, testok) ==
    IF ~allocok THEN [ret |-> -1, th |-> NoThread]
    ELSE IF ~seedok THEN [ret |-> -1, th |-> NoThread]
    ELSE LET k == polar_load_key(certs_c, fileok, testok)
         IN  IF k.ret # 0
             THEN [ret |-> -1, th |-> [set |-> FALSE, seeded |-> TRUE, pkey |-> k.pkey]]
             ELSE [ret |-> 0, th |-> [set |-> TRUE, seeded |-> TRUE, pkey |-> k.pkey]]

\* mk_tls_worker_init on worker t: abort() when polar_thread_init fails
mk_tls_worker_init(t) ==
    /\ ~crashed /\ server.up /\ server.ret = 0 /\ ~thctx[t].set
    /\ \E allocok, seedok, fileok, testok \in BOOLEAN :
         LET ti == polar_thread_init(build.certs_c, allocok, seedok, fileok, testok)
         IN  /\ thctx' = [thctx EXCEPT ![t] = ti.th]
             /\ crashed' = (ti.ret # 0)
    /\ last' = [NoFrame EXCEPT !.op = "worker_init", !.t = t]
    /\ UNCHANGED <<build, conf, server, pool, nalloc, parked, sync>>

(* ------------------- entropy generator and session cache --------------- *)
LockWorkers == 1..NLockWorkers

\* pthread_mutex_lock returning at once whoever holds the mutex
pthread_mutex_lock_NoWait(holders) == TRUE

\* pthread_mutex_lock(m) returns once no thread holds m; holders: who holds it
pthread_mutex_lock(holders) == holders = {}

\* sync before polar_init: the master at "boot", no worker thread started
SyncBoot ==
    [mutex |-> {}, cache |-> {},
     at |-> [t \in {0} \cup LockWorkers |-> IF t = 0 THEN "boot" ELSE "start"]]

\* sync once the hooks have run: the master past polar_init, every worker
\* past polar_thread_init
SyncUp ==
    [mutex |-> {}, cache |-> {},
     at |-> [t \in {0} \cup LockWorkers |-> IF t = 0 THEN "up" ELSE "run"]]

\* the variables the steps below leave alone
LockFrame == UNCHANGED <<build, conf, server, thctx, pool, nalloc, crashed, last, parked>>

\* polar_init, line 352: ssl_cache_init(&global_sessions.cache), no mutex taken
polar_init_cache ==
    /\ sync.at[0] = "boot"
    /\ sync' = [sync EXCEPT !.at[0] = "ssl_cache_init"]
    /\ LockFrame

\* polar_init, lines 355-357: the server mutex is taken around entropy_init
polar_init_lock ==
    /\ sync.at[0] = "ssl_cache_init"
    /\ pthread_mutex_lock(sync.mutex)
    /\ sync' = [sync EXCEPT !.mutex = @ \cup {0}, !.at[0] = "entropy_init"]
    /\ LockFrame

\* polar_init, line 358; the hook returns and the host may start its workers
polar_init_unlock ==
    /\ sync.at[0] = "entropy_init"
    /\ sync' = [sync EXCEPT !.mutex = @ \ {0}, !.at[0] = "up"]
    /\ LockFrame

\* polar_thread_init, lines 386-387: the server mutex around mk_list_add
polar_thread_init_lock(t) ==
    /\ sync.at[0] = "up" /\ sync.at[t] = "start"
    /\ pthread_mutex_lock(sync.mutex)
    /\ sync' = [sync EXCEPT !.mutex = @ \cup {t}, !.at[t] = "mk_list_add"]
    /\ LockFrame

\* polar_thread_init, line 388; ctr_drbg_init comes next and seeds itself
\* through entropy_func_safe
polar_thread_init_unlock(t) ==
    /\ sync.at[t] = "mk_list_add"
    /\ sync' = [sync EXCEPT !.mutex = @ \ {t}, !.at[t] = "seed"]
    /\ LockFrame

\* entropy_func_safe, lines 140-141, called by ctr_drbg_init (from "seed") or
\* by a reseed of ctr_drbg_random inside an engine call (from "run")
entropy_func_safe_lock(t) ==
    /\ sync.at[t] \in {"seed", "run"}
    /\ pthread_mutex_lock(sync.mutex)
    /\ sync' = [sync EXCEPT !.mutex = @ \cup {t},
                            !.at[t] = IF sync.at[t] = "seed" THEN "entropy_func_seed"
                                      ELSE "entropy_func"]
    /\ LockFrame

\* entropy_func_safe, lines 142-144
entropy_func_safe_unlock(t) ==
    /\ sync.at[t] \in {"entropy_func_seed", "entropy_func"}
    /\ sync' = [sync EXCEPT !.mutex = @ \ {t}, !.at[t] = "run"]
    /\ LockFrame

\* polar_cache_get / polar_cache_set, lines 495-496 and 508-509, called by the
\* engine during a handshake
polar_cache_lock(t, f) ==
    /\ sync.at[t] = "run"
    /\ pthread_mutex_lock(sync.cache)
    /\ sync' = [sync EXCEPT !.cache = @ \cup {t}, !.at[t] = f]
    /\ LockFrame

\* polar_cache_get / polar_cache_set, lines 497 and 510
polar_cache_unlock(t) ==
    /\ sync.at[t] \in {"ssl_cache_get", "ssl_cache_set"}
    /\ sync' = [sync EXCEPT !.cache = @ \ {t}, !.at[t] = "run"]
    /\ LockFrame

(* --------------------------- specifications ---------------------------- *)
\* the engine either would block or serves the call in full
PoolEnv == [eng |-> {POLARSSL_ERR_NET_WANT_READ, MaxRec}, errno |-> {EAGAIN}]

\* the process as the host starts it: nothing initialised yet; the workers
\* the host starts read from a descriptor once their init hook has returned
InitStart ==
    /\ build \in [certs_c : BOOLEAN]
    /\ conf \in RawConfs
    /\ server = NoServer
    /\ thctx = [t \in Threads |-> NoThread]
    /\ pool = [t \in Threads |-> <<>>]
    /\ nalloc = 0
    /\ crashed = FALSE
    /\ last = NoFrame
    /\ parked = [t \in Threads |-> NoFrame]
    /\ sync = SyncBoot

NextStart ==
    \/ mk_tls_plugin_init
    \/ \E t \in Workers : mk_tls_worker_init(t)
    \/ \E t \in Workers : mk_tls_read(t, 1, MaxLen, PoolEnv)

SpecStart == InitStart /\ [][NextStart]_vars

\* the server once both hooks have run: credentials from the configured files,
\* every worker with its thread context, every pool empty
Init ==
    /\ build = [certs_c |-> TRUE]
    /\ conf = config_parse([cert_file |-> "conf", cert_chain_file |-> "",
                            key_file |-> "conf", dh_param_file |-> "conf"]).conf
    /\ server = [up |-> TRUE, ret |-> 0, polar |-> 0, cert |-> "file", chain |-> FALSE,
                 dhm |-> "file"]
    /\ thctx = [t \in Threads |->
                  IF t \in Workers THEN [set |-> TRUE, seeded |-> TRUE, pkey |-> "file"]
                  ELSE NoThread]
    /\ pool = [t \in Threads |-> <<>>]
    /\ nalloc = 0
    /\ crashed = FALSE
    /\ last = NoFrame
    /\ parked = [t \in Threads |-> NoFrame]
    /\ sync = SyncUp

\* the pool of one worker under every callback on every descriptor, and close
\* from the master thread
Next ==
    \/ \E fd \in Fds : mk_tls_read(1, fd, MaxLen, PoolEnv)
    \/ \E fd \in Fds : mk_tls_write(1, fd, MaxLen, PoolEnv)
    \/ \E fd \in Fds : mk_tls_writev(1, fd, MkIov(<< <<1>>, <<2>> >>), PoolEnv)
    \/ \E fd \in Fds : SendFileCall(1, fd, 2, 0, 2)
    \/ SendFileIter(PoolEnv)
    \/ \E t \in {0, 1}, fd \in Fds : mk_tls_close(t, fd)

Spec == Init /\ [][Next]_vars

\* read, write, writev and close of one worker on one descriptor, under every
\* answer of the engine and every errno
NextIO ==
    \/ \E count \in 1..MaxLen : mk_tls_read(1, 1, count, FullEnv)
    \/ \E count \in 1..MaxLen : mk_tls_write(1, 1, count, FullEnv)
    \/ \E mk_io \in IovInputs : mk_tls_writev(1, 1, mk_io, FullEnv)
    \/ mk_tls_close(1, 1)

SpecIO == Init /\ [][NextIO]_vars

\* send_file of one worker on one descriptor, for every file length, offset
\* and count, under every answer of pread and of the engine
NextSendFile ==
    \/ \E flen \in 0..MaxFile, off \in 0..MaxFile, count \in 0..(MaxFile + 1) :
          SendFileCall(1, 1, flen, off, count)
    \/ SendFileIter(FullEnv)

SpecSendFile == Init /\ [][NextSendFile]_vars

\* the thread inside mk_tls_send_file keeps running: its loop is not starved
SpecSendFileFair == SpecSendFile /\ WF_vars(SendFileIter(FullEnv))

\* worker 1 running every callback on every descriptor and worker 2 on
\* descriptor 1, their send_file loops interleaved with the other's callbacks
ThreadFds(t) == IF t = 1 THEN Fds ELSE {1}

\* the engine serving every call in full
ThreadEnv == [eng |-> {MaxRec}, errno |-> {0}]

NextThreads ==
    \/ \E t \in Workers : \E fd \in ThreadFds(t) : mk_tls_read(t, fd, MaxLen, ThreadEnv)
    \/ \E t \in Workers : \E fd \in ThreadFds(t) : mk_tls_write(t, fd, MaxLen, ThreadEnv)
    \/ \E t \in Workers : \E fd \in ThreadFds(t) :
          mk_tls_writev(t, fd, MkIov(<< <<1>>, <<2>> >>), ThreadEnv)
    \/ \E t \in Workers : \E fd \in ThreadFds(t) : SendFileCall(t, fd, 1, 0, 1)
    \/ SendFileIter(ThreadEnv)
    \/ \E t \in Workers : \E fd \in ThreadFds(t) : mk_tls_close(t, fd)
    \/ \E t \in Workers : Switch(t)

SpecThreads == Init /\ [][NextThreads]_vars

\* the process from its start: polar_init on the master thread, then the
\* workers, each initialising itself and then calling, in any order and at any
\* time, for entropy and for the session cache
InitLocks ==
    /\ build = [certs_c |-> TRUE]
    /\ conf = [cert_file |-> "", cert_chain_file |-> "", key_file |-> "",
               dh_param_file |-> ""]
    /\ server = NoServer
    /\ thctx = [t \in Threads |-> NoThread]
    /\ pool = [t \in Threads |-> <<>>]
    /\ nalloc = 0
    /\ crashed = FALSE
    /\ last = NoFrame
    /\ parked = [t \in Threads |-> NoFrame]
    /\ sync = SyncBoot

NextLocks ==
    \/ polar_init_cache
    \/ polar_init_lock
    \/ polar_init_unlock
    \/ \E t \in LockWorkers : polar_thread_init_lock(t)
    \/ \E t \in LockWorkers : polar_thread_init_unlock(t)
    \/ \E t \in LockWorkers : entropy_func_safe_lock(t)
    \/ \E t \in LockWorkers : entropy_func_safe_unlock(t)
    \/ \E t \in LockWorkers, f \in {"ssl_cache_get", "ssl_cache_set"} : polar_cache_lock(t, f)
    \/ \E t \in LockWorkers : polar_cache_unlock(t)

SpecLocks == InitLocks /\ [][NextLocks]_vars

\* context_unset applied to every descriptor and every context of a pool that
\* reads, writes and closes on every descriptor have built
NextUnset ==
    \/ \E fd \in Fds, count \in 1..MaxLen : mk_tls_read(1, fd, count, PoolEnv)
    \/ \E fd \in Fds : mk_tls_write(1, fd, MaxLen, PoolEnv)
    \/ \E fd \in Fds : mk_tls_close(1, fd)
    \/ \E fd \in Fds, ssl \in 1..MaxCtx : ContextUnsetCall(1, fd, ssl)

SpecUnset == Init /\ [][NextUnset]_vars

(* ============================ send_file ================================ *)
\* a send_file call that got its context and its chunk buffer and whose file
\* reads did not fail
SendFile == last.op = "send_file" /\ ~last.nomem /\ last.ssl # 0 /\ ~last.ioerr

\* the bytes of the file from the offset the call was given
Remaining == IF last.flen > last.off0 THEN last.flen - last.off0 ELSE 0

\* C1: during a send_file call (here: one asked for count > 0 bytes) the bytes
\* the engine has taken never exceed count, and no write hands it more than count.
C1_NeverBeyondCount ==
    (SendFile /\ last.count > 0)
        => /\ last.sent <= last.count
           /\ last.len <= last.count

\* C2: send_file with count = 0 (here: on a file that still holds bytes) returns
\* 0, sends nothing, leaves the offset where it was and does not read the file.
C2_ZeroCount ==
    (SendFile /\ last.count = 0 /\ Remaining > 0)
        => /\ last.sent = 0
           /\ last.off = last.off0
           /\ last.preads = 0
           /\ last.pc = "done" => last.ret = 0

\* the calls C10 is about: count exceeds what the file still holds
C10_Pre == last.op = "send_file" /\ ~last.nomem /\ last.count > Remaining

\* C10 as stated: such a call returns exactly the bytes it sent, at most count
\* and at most what the file held.
C10_ReturnsBytesSent ==
    (C10_Pre /\ SendFile /\ last.pc = "done")
        => /\ last.ret = last.sent
           /\ last.sent <= last.count
           /\ last.sent <= Remaining

\* what holds of such a call at every step: it stays within the file and within
\* count, reads the file at most once per remaining byte and once more, and
\* returns the bytes sent unless nothing was sent and the last attempt failed
C10_Safe ==
    C10_Pre
        => /\ last.sent <= Remaining
           /\ last.sent <= last.count
           /\ last.off = last.off0 + last.sent
           /\ last.preads <= Remaining + 1
           /\ last.pc = "done"
                => IF last.sent > 0 \/ last.eng \in {0, POLARSSL_ERR_SSL_CONN_EOF}
                   THEN last.ret = last.sent
                   ELSE last.ret = -1

\* C10 (amended): a send_file call with count greater than the bytes remaining
\* ends (it returns, or the process dies on a missing context) after at most one
\* file read per remaining byte plus one, sends at most count and at most the
\* remaining bytes, and returns the bytes sent, or -1 when nothing was sent and
\* the last attempt failed or would block.
C10_StopsAtEof ==
    /\ [](C10_Safe)
    /\ (C10_Pre /\ last.pc = "loop") ~> (last.pc \in {"done", "crash"})

\* the whole remainder of a file was sent in several passes and the call
\* stopped at end-of-file
C10_Witness ==
    /\ C10_Pre /\ SendFile /\ last.pc = "done"
    /\ Remaining = MaxFile /\ last.preads = MaxFile + 1
    /\ last.sent = Remaining /\ last.ret = Remaining
    /\ last.eng = 0 /\ last.len = 0

(* ========================== initialisation ============================= *)
\* C3: when no server certificate could be loaded (the configured file failed
\* and no built-in certificate was usable), the init hook reports an error.
C3_InitFailsWithoutCert ==
    (server.up /\ server.cert = "none") => server.ret # 0

(* ============================= the pool ================================ *)
\* C4: in a thread's pool no two contexts are bound to the same descriptor.
C4_OneContextPerFd ==
    \A t \in Threads : \A i, j \in 1..Len(pool[t]) :
        (i # j /\ pool[t][i].fd = pool[t][j].fd) => pool[t][i].fd = FREE_FD

\* a callback found its descriptor bound in a pool that holds MaxCtx contexts,
\* each bound to a descriptor of its own
C4_Witness ==
    /\ last.op = "read" /\ ~last.isnew /\ last.ssl = MaxCtx
    /\ Len(pool[1]) = MaxCtx
    /\ \A i \in 1..MaxCtx : pool[1][i].fd = i

\* C5: when a callback had to call context_new(fd), context_get(fd) on the
\* pool it leaves yields the context context_new returned.
C5_GetAfterNew ==
    (last.isnew /\ last.op \in {"read", "write", "writev", "send_file"})
        => context_get(TRUE, pool[last.t], last.fd) = last.ssl

\* context_new rebound the first head of a pool whose second head is in use
C5_Witness ==
    /\ last.isnew /\ last.alloc = 0 /\ last.ssl = 1
    /\ Len(pool[1]) = 2 /\ pool[1][2].fd # FREE_FD
    /\ pool[1][1].fd = last.fd

\* whether list p holds a free context
HasFree(p) == \E i \in 1..Len(p) : p[i].fd = FREE_FD

\* the step is a callback of thread t that found its descriptor unbound and
\* called context_new
Binds(t) ==
    /\ last.pc # "loop"
    /\ last'.t = t /\ last'.isnew
    /\ last'.op \in {"read", "write", "writev", "send_file"}

\* the pool of t never shrinks, grows by one at most and only in a callback
\* that binds while no context is free, and keeps its size while one is free
C6_SizeChange(t) ==
    LET n == Len(pool[t])
        m == Len(pool'[t])
    IN  /\ m >= n
        /\ m # n => /\ m = n + 1
                    /\ Binds(t)
                    /\ context_get(TRUE, pool[t], last'.fd) = 0
                    /\ ~HasFree(pool[t])
        /\ HasFree(pool[t]) => m = n

\* C6 as stated: the size of a pool changes only in a callback that must bind
\* a descriptor while no context is free, and then it grows by exactly one;
\* while a free context exists the size stays; the pool never shrinks.
C6_GrowsByOne ==
    [][\A t \in Threads :
          /\ C6_SizeChange(t)
          /\ (Binds(t) /\ ~HasFree(pool[t])) => Len(pool'[t]) = Len(pool[t]) + 1]_vars

\* C6: the size of a pool changes only in a callback that must bind a
\* descriptor while no context is free: it grows by exactly one when the
\* allocation succeeds and stays when the allocation fails; while a free
\* context exists the size stays; the pool never shrinks.
C6_PoolSize ==
    [][\A t \in Threads :
          /\ C6_SizeChange(t)
          /\ (Binds(t) /\ ~HasFree(pool[t]))
                => Len(pool'[t]) = Len(pool[t]) + last'.alloc]_vars

\* a descriptor was bound by reusing the only context, freed by a close before
\* (acquire(fd1), close(fd1), acquire(fd2))
C6_Witness ==
    /\ last.isnew /\ last.alloc = 0 /\ last.ssl = 1 /\ last.fd = 2
    /\ Len(pool[1]) = 1 /\ nalloc = 1
    /\ pool[1][1].fd = 2

(* ======================= read, write and results ======================= *)
\* the context a returned callback used
Ctx == pool[last.t][last.ssl].context

\* the plaintext the engine holds decrypted for the context and has not delivered
Buffered == IF Ctx.in_offt THEN Ctx.in_msglen ELSE 0

\* C7: a read whose engine call reports want-read or want-write returns -1
\* with errno EAGAIN, whatever errno was and whatever the engine has buffered.
C7_WouldBlock ==
    (last.op = "read" /\ last.pc = "done" /\ last.eng \in WantResults)
        => last.ret = -1 /\ last.errno = EAGAIN

\* a read met want-write with errno at ECONNRESET and plaintext buffered
C7_Witness ==
    /\ last.op = "read" /\ last.pc = "done" /\ last.ssl # 0
    /\ last.eng = POLARSSL_ERR_NET_WANT_WRITE /\ last.errno_in = ECONNRESET
    /\ Buffered > 0
    /\ last.ret = -1 /\ last.errno = EAGAIN

\* C8: what a callback returns for the result eng of its engine call and the
\* errno it finds: eng >= 0 as it is (a read adds to a positive eng only), an
\* orderly close as 0, want-read / want-write as -1 with EAGAIN, any other
\* negative eng as -1 with an errno other than EAGAIN.
C8_Translation ==
    (last.op \in {"read", "write", "writev"} /\ last.pc = "done" /\ last.ncalls = 1)
        => IF last.eng >= 0
           THEN /\ last.errno = last.errno_in
                /\ IF last.op = "read" /\ last.eng > 0
                   THEN last.ret >= last.eng
                   ELSE last.ret = last.eng
           ELSE IF last.eng = POLARSSL_ERR_SSL_CONN_EOF
           THEN last.ret = 0 /\ last.errno = last.errno_in
           ELSE IF last.eng \in WantResults
           THEN last.ret = -1 /\ last.errno = EAGAIN
           ELSE /\ last.ret = -1
                /\ last.errno # EAGAIN
                /\ last.errno_in # EAGAIN => last.errno = last.errno_in

\* a write met a hard error with errno at EAGAIN: -1 is returned, errno cleared
C8_Witness ==
    /\ last.pc = "done" /\ last.ncalls = 1 /\ last.errno_in = EAGAIN
    /\ last.op = "write" /\ last.eng = POLARSSL_ERR_SSL_INVALID_MAC
    /\ last.ret = -1 /\ last.errno = 0

\* C9: a read to which the engine delivered eng > 0 bytes returns eng plus the
\* plaintext still buffered in the engine; the engine copied at most count
\* bytes; and a read that got no bytes returns 0 or -1, nothing added.
C9_ReadTotal ==
    (last.op = "read" /\ last.pc = "done" /\ last.ssl # 0)
        => IF last.eng > 0
           THEN last.ret = last.eng + Buffered /\ last.eng <= last.count
           ELSE last.ret \in {0, -1}

\* a read of count bytes returned more than count: the rest of the record
C9_Witness ==
    /\ last.op = "read" /\ last.pc = "done" /\ last.ssl # 0
    /\ last.eng = last.count /\ Buffered > 0
    /\ last.ret = last.count + Buffered /\ last.ret > last.count

(* ===================== send_file: result and offset ==================== *)
\* C11: in every send_file call the offset stands at its initial value plus
\* the bytes S the engine accepted so far; a call that returns with S > 0
\* returns S, whatever ended it; one that returns with S = 0 returns the
\* translation of its last attempt: 0 at end-of-file, on an engine result of 0
\* and on an orderly close, -1 with EAGAIN when the engine would block, -1 with
\* another errno on any other failure (a failed file read or allocation too).
C11_ResultAndOffset ==
    last.op = "send_file"
        => /\ last.off = last.off0 + last.sent
           /\ last.pc = "done" =>
                IF last.sent > 0 THEN last.ret = last.sent
                ELSE IF last.nomem THEN last.ret = -1
                ELSE IF last.eng = 0 \/ last.eng = POLARSSL_ERR_SSL_CONN_EOF
                THEN last.ret = 0
                ELSE IF last.eng \in WantResults
                THEN last.ret = -1 /\ last.errno = EAGAIN
                ELSE last.ret = -1 /\ last.errno # EAGAIN

\* a call sent a byte, then met a hard engine error, and returned the byte count
C11_Witness ==
    /\ last.op = "send_file" /\ last.pc = "done" /\ last.ssl # 0
    /\ last.sent > 0 /\ last.eng \in HardErrors
    /\ last.ret = last.sent /\ last.off = last.off0 + last.sent

(* =============================== writev ================================ *)
RECURSIVE Concat(_)
\* the buffers of a vector laid end to end, first to last
Concat(bufs) == IF bufs = <<>> THEN <<>> ELSE Head(bufs) \o Concat(Tail(bufs))

\* C12: a writev call that got its scratch buffer makes one ssl_write; the
\* bytes it hands over are the buffers of the vector end to end in index
\* order; their number is the sum of the buffers' lengths and total_len, so
\* that the assertion used == len does not fail (the process dies in writev
\* only on a missing context); and no scratch buffer is held when it returns.
C12_Concatenation ==
    last.op = "writev"
        => /\ last.pc = "crash" => last.ssl = 0
           /\ last.pc = "done" => last.held = 0
           /\ (last.pc = "done" /\ ~last.nomem)
                => /\ last.ncalls = 1
                   /\ last.buf = Concat(last.io)
                   /\ Len(last.buf) = SumLen(last.io)
                   /\ Len(last.buf) = last.count
                   /\ last.len = last.count

\* a vector of three buffers, the middle one empty, went out as three bytes
C12_Witness ==
    /\ last.op = "writev" /\ last.pc = "done" /\ ~last.nomem /\ last.ssl # 0
    /\ last.io = << <<1, 2>>, <<>>, <<1>> >>
    /\ last.buf = <<1, 2, 1>> /\ last.len = 3 /\ last.held = 0
    /\ last.ret = MaxRec

(* ================================ close ================================ *)
\* C13: every close(fd), on a worker or on a thread without a pool, returns 0
\* and calls net_close(fd) once, as the last thing it does, whatever
\* ssl_close_notify reported; if a context was bound to fd, ssl_close_notify
\* ran while it was bound to fd, then it was released (marked free, session
\* reset) with nothing logged; if none was bound, the pool is left as it was;
\* after the call no context of the thread's pool is bound to fd.
C13_Close ==
    [][last'.op = "close" =>
         LET t == last'.t
             fd == last'.fd
             b == context_get(TRUE, pool[t], fd)
         IN  /\ ~crashed'
             /\ last'.ret = 0 /\ last'.closed = 1 /\ last'.logged = 0
             /\ last'.calls[Len(last'.calls)] = "net_close"
             /\ context_get(TRUE, pool'[t], fd) = 0
             /\ Len(pool'[t]) = Len(pool[t])
             /\ b # 0 => /\ last'.notified = fd
                         /\ last'.calls = <<"ssl_close_notify", "ssl_session_reset",
                                            "net_close">>
                         /\ pool'[t][b].fd = FREE_FD
                         /\ pool'[t][b].context.clean
             /\ b = 0 => /\ last'.calls = <<"net_close">>
                         /\ pool'[t] = pool[t]]_vars

\* a close whose notification failed on a bound context returned 0 all the
\* same, the context free again and the other one still bound
C13_Witness ==
    /\ last.op = "close" /\ last.t = 1 /\ last.ssl = 1
    /\ last.eng = POLARSSL_ERR_NET_CONN_RESET /\ last.notified = last.fd
    /\ last.ret = 0 /\ last.closed = 1
    /\ Len(pool[1]) = 2 /\ pool[1][1].fd = FREE_FD /\ pool[1][2].fd # FREE_FD

(* ============================== threads ================================ *)
\* C14: whatever the interleaving of two workers' callbacks, also on the same
\* descriptor number, a step changes the pool of a thread only if it is a
\* callback that thread executes, and the context a callback works on is one
\* of the executing thread's own pool, bound there to the callback's descriptor.
C14_Isolation ==
    [][/\ \A u \in Threads :
            pool'[u] # pool[u] => last'.t = u /\ last'.op # "switch"
       /\ (last'.op \in {"read", "write", "writev", "send_file"} /\ last'.ssl # 0)
            => /\ last'.ssl <= Len(pool'[last'.t])
               /\ pool'[last'.t][last'.ssl].fd = last'.fd]_vars

\* worker 2 closed descriptor 1 while worker 1 was inside send_file on
\* descriptor 1: the context of worker 1 is still bound
C14_Witness ==
    /\ parked[1].pc = "loop" /\ parked[1].fd = 1 /\ parked[1].ssl = 1
    /\ last.t = 2 /\ last.op = "close" /\ last.fd = 1 /\ last.ssl = 1
    /\ pool[1][1].fd = 1 /\ pool[2][1].fd = FREE_FD

(* ================== entropy generator and session cache ================ *)
\* the threads inside the entropy generator, and those inside the session cache
InEntropy ==
    {t \in DOMAIN sync.at : sync.at[t] \in {"entropy_init", "entropy_func_seed", "entropy_func"}}

InCache ==
    {t \in DOMAIN sync.at : sync.at[t] \in {"ssl_cache_init", "ssl_cache_get", "ssl_cache_set"}}

\* C15 as stated: a thread inside the entropy generator holds the server
\* mutex and a thread inside the session cache holds the cache mutex, so that
\* at most one thread is inside each.
C15_EveryAccessLocked ==
    /\ \A t \in InEntropy : t \in sync.mutex
    /\ \A t \in InCache : t \in sync.cache
    /\ Cardinality(InEntropy) <= 1
    /\ Cardinality(InCache) <= 1

\* C15 (amended): at most one thread is inside the entropy generator and at
\* most one inside the session cache; a thread inside the entropy generator
\* holds the server mutex; a thread inside ssl_cache_get or ssl_cache_set
\* holds the cache mutex; ssl_cache_init in polar_init runs without the cache
\* mutex, at a time when no worker thread has started.
C15_MutualExclusion ==
    /\ Cardinality(InEntropy) <= 1
    /\ Cardinality(InCache) <= 1
    /\ Cardinality(sync.mutex) <= 1
    /\ Cardinality(sync.cache) <= 1
    /\ \A t \in InEntropy : t \in sync.mutex
    /\ \A t \in InCache : sync.at[t] # "ssl_cache_init" => t \in sync.cache
    /\ sync.at[0] \in {"boot", "ssl_cache_init", "entropy_init"}
         => \A t \in LockWorkers : sync.at[t] = "start"

\* one worker is inside entropy_func seeding itself, another inside
\* ssl_cache_set, a third has run neither yet and must wait for either
C15_Witness ==
    /\ sync.at[1] = "entropy_func_seed" /\ sync.mutex = {1}
    /\ sync.at[2] = "ssl_cache_set" /\ sync.cache = {2}
    /\ sync.at[3] = "run"
    /\ ~ENABLED entropy_func_safe_lock(3)
    /\ ~ENABLED polar_cache_lock(3, "ssl_cache_get")

(* ============================== no retry =============================== *)
\* what C16 says of send_file: while the loop runs every engine result so far
\* was positive and every file read was followed by an engine call; the call
\* returns on the first engine result that is not positive, with no file read
\* or engine call after it, or on a file read that yields nothing
C16_SendFile ==
    (last.op = "send_file" /\ ~last.nomem)
        => /\ last.pc = "loop" => /\ last.ncalls = 0 \/ last.eng > 0
                                  /\ last.preads = last.ncalls
           /\ last.pc = "done" => \/ last.preads = last.ncalls /\ last.eng <= 0
                                  \/ last.preads = last.ncalls + 1

\* a would-block result of the engine ends the callback that got it
C16_WouldBlock ==
    (last.op \in {"read", "write", "writev", "send_file"} /\ last.eng \in WantResults)
        => /\ last.pc = "done"
           /\ \/ last.ret = -1 /\ last.errno = EAGAIN
              \/ last.op = "send_file" /\ last.sent > 0 /\ last.ret = last.sent

\* C16 as stated: read, write and writev make exactly one engine data call
\* per invocation, send_file none after the first result that is not
\* positive, and a would-block result is returned by the invocation that got it.
C16_ExactlyOneCall ==
    /\ (last.op \in {"read", "write", "writev"} /\ last.pc = "done") => last.ncalls = 1
    /\ C16_SendFile
    /\ C16_WouldBlock

\* C16 (amended): read and write make exactly one engine data call per
\* invocation; writev makes exactly one, or none when its scratch buffer
\* cannot be allocated; send_file makes no engine or file call after the first
\* engine result that is not positive; a would-block result is returned by the
\* invocation that got it.
C16_NoRetry ==
    /\ (last.op \in {"read", "write"} /\ last.pc = "done") => last.ncalls = 1
    /\ (last.op = "writev" /\ last.pc = "done")
         => last.ncalls = (IF last.nomem THEN 0 ELSE 1)
    /\ C16_SendFile
    /\ C16_WouldBlock

\* a send_file call sent a chunk, then the engine would block: it returned
\* the bytes sent after two file reads and two engine calls
C16_Witness ==
    /\ last.op = "send_file" /\ last.pc = "done" /\ last.ssl # 0
    /\ last.eng = POLARSSL_ERR_NET_WANT_READ
    /\ last.ncalls = 2 /\ last.preads = 2
    /\ last.sent > 0 /\ last.ret = last.sent

(* ============================ worker init ============================== *)
\* C17: local_thread_context() yields a worker's thread context, and with it
\* its pool, only once its ctr_drbg is seeded and its private key loaded; a
\* worker init that fails at either aborts the process; and every callback
\* that ran did so on a thread whose ctr_drbg is seeded and whose key is loaded.
C17_SeededBeforeUse ==
    /\ \A t \in Workers :
         /\ thctx[t].set => thctx[t].seeded /\ thctx[t].pkey # "none"
         /\ pool[t] # <<>> => thctx[t].seeded /\ thctx[t].pkey # "none"
    /\ (last.op = "worker_init" /\ ~thctx[last.t].set) => crashed
    /\ last.op = "read" => /\ thctx[last.t].set /\ thctx[last.t].seeded
                           /\ thctx[last.t].pkey # "none"

\* a worker whose key file failed to load took the built-in key and read from
\* a descriptor, the other worker not yet initialised
C17_Witness ==
    /\ last.op = "read" /\ last.t = 1 /\ last.ssl # 0 /\ last.ret > 0
    /\ thctx[1].seeded /\ thctx[1].pkey = "test"
    /\ ~thctx[2].set /\ ~crashed

(* ============================ context_unset ============================ *)
\* C18: context_unset(fd, ssl) on a context whose head is not bound to fd
\* changes nothing in the pool (no binding, no session state, no size), logs
\* the inconsistency and returns 0.
C18_MismatchFrame ==
    [][(last'.op = "context_unset" /\ pool[last'.t][last'.ssl].fd # last'.fd)
          => /\ pool' = pool
             /\ last'.logged = 1
             /\ last'.ret = 0
             /\ ~crashed']_vars

\* context_unset was given a context bound to another descriptor, its
\* session in use: it is still bound, its session as it was
C18_Witness ==
    /\ last.op = "context_unset" /\ last.logged = 1 /\ last.ret = 0
    /\ pool[1][last.ssl].fd \notin {last.fd, FREE_FD}
    /\ ~pool[1][last.ssl].context.clean
    /\ pool[1][last.ssl].context.in_offt

(* ============================== bindings =============================== *)
\* C19: the descriptor a context is bound to changes in two ways only: from
\* free to fd, in a callback on fd that found no context bound to fd and was
\* handed this one, and from fd to free, in a close(fd); never from one
\* descriptor to another; a context enters the pool bound to the descriptor of
\* the callback that allocated it; and a callback that finds its descriptor
\* bound changes no binding.
C19_BindingTransitions ==
    [][\A t \in Threads :
         /\ \A i \in 1..Len(pool[t]) :
              LET a == pool[t][i].fd
                  b == pool'[t][i].fd
              IN  a # b =>
                    \/ /\ a = FREE_FD /\ b = last'.fd
                       /\ Binds(t) /\ last'.ssl = i
                       /\ context_get(TRUE, pool[t], b) = 0
                    \/ /\ b = FREE_FD
                       /\ last'.op = "close" /\ last'.t = t /\ last'.fd = a
         /\ \A i \in (Len(pool[t]) + 1)..Len(pool'[t]) :
              /\ pool'[t][i].fd = last'.fd
              /\ Binds(t) /\ last'.ssl = i
         /\ (last'.t = t /\ last'.op \in {"read", "write", "writev", "send_file"}
               /\ context_get(TRUE, pool[t], last'.fd) # 0)
              => [i \in 1..Len(pool'[t]) |-> pool'[t][i].fd]
                   = [i \in 1..Len(pool[t]) |-> pool[t][i].fd]]_vars

\* the second context of a pool, freed by a close, was bound again by a write
\* on a descriptor not bound before, the first context keeping its own
C19_Witness ==
    /\ last.op = "write" /\ last.isnew /\ last.alloc = 0 /\ last.ssl = 2
    /\ Len(pool[1]) = 2 /\ nalloc = 2
    /\ pool[1][2].fd = last.fd /\ pool[1][1].fd \notin {last.fd, FREE_FD}

(* ============================ session reset ============================ *)
\* C20: every free context of a pool holds reset session state: nothing of a
\* handshake or session, no record buffered; so a context bound again to a
\* new descriptor enters its first engine call with the state
\* ssl_session_reset left, the reset having come after the last engine call
\* (the close notification) made for the descriptor it was bound to before.
C20_ResetBeforeReuse ==
    /\ \A t \in Threads : \A i \in 1..Len(pool[t]) :
         pool[t][i].fd = FREE_FD => pool[t][i].context = NewSsl
    /\ (last.op = "send_file" /\ last.pc = "loop" /\ last.ncalls = 0
          /\ last.isnew /\ last.ssl # 0)
         => pool[last.t][last.ssl].context = NewSsl
    /\ (last.op = "close" /\ last.ssl # 0)
         => last.calls = <<"ssl_close_notify", "ssl_session_reset", "net_close">>

\* a context that served a descriptor and was released is bound to another
\* descriptor by send_file, which has not called the engine yet
C20_Witness ==
    /\ last.op = "send_file" /\ last.pc = "loop" /\ last.ncalls = 0
    /\ last.isnew /\ last.alloc = 0 /\ last.ssl = 1 /\ nalloc = 1
    /\ pool[1][1].fd = last.fd /\ pool[1][1].context = NewSsl

(* ========================= allocation failure ========================== *)
\* frame f is of a read, write, writev or send_file that found its descriptor
\* unbound, called context_new with no free context in the pool, and got NULL
\* because mem_alloc failed
ContextAllocFailed(f) ==
    /\ f.op \in {"read", "write", "writev", "send_file"}
    /\ f.isnew /\ f.ssl = 0

\* C21: when the allocation of a new context fails in a read, write, writev
\* or send_file on an unbound descriptor, the callback does not call the
\* engine with the missing context (no engine call is made and the process
\* does not die in one), what it returns to the host is an error, and the
\* pool of the thread, its size and every binding, stays as it was.
C21_AllocationFailure ==
    [][ContextAllocFailed(last')
          => /\ pool' = pool
             /\ last'.pc # "crash"
             /\ last'.ncalls = 0
             /\ last'.pc = "done" => last'.ret < 0]_vars

====
